---- MODULE Spec2Model ----
(***************************************************************************)
(* A model of the capabilities-parsing part of ogcutils (src/index.js):    *)
(* toDate, subtractTimeDelta, getPeriodTimedelta, enumerateAvailableTimes, *)
(* getAllLayers, getBoundingBoxLatLon and the record-building handler of   *)
(* getAvailableLayers.                                                     *)
(*                                                                         *)
(* Texts are sequences of one-character strings, so that String.split,     *)
(* String.includes, the period regular expression and Date.parse are       *)
(* modelled by what they do to the characters.  Instants are whole seconds *)
(* since 1970-01-01T00:00:00Z (the period grammar has no sub-second part). *)
(* A library call is one behaviour: Init draws the operation and its       *)
(* arguments, the operation's action computes the outcome.                 *)
(***************************************************************************)
EXTENDS Integers, Sequences, FiniteSets, TLC

VARIABLES op, args, now, pc, ret

vars == <<op, args, now, pc, ret>>

(***************************************************************************)
(* Bounds of the explored inputs.                                          *)
(***************************************************************************)
\* longest period text handed to getPeriodTimedelta on its own
MaxPeriodLen == 4

\* the written instants are whole days 0..MaxSpanDays after 2020-03-29
\* (and 2020-02-29, a month before)
MaxSpanDays == 2

\* limits run from -1 (no limit) to MaxLimit
MaxLimit == 3

\* most nodes of a capability tree
MaxNodes == 4

\* most entries of a layer's BoundingBox array
MaxBoxes == 2

\* most entries of a layer's Dimension array
MaxDims == 2

\* the longest array the loop of a stepwise call may build
MaxWalkLen == 40

(***************************************************************************)
(* Characters.                                                             *)
(***************************************************************************)
Digits == <<"0", "1", "2", "3", "4", "5", "6", "7", "8", "9">>

IsDigit(c) == \E i \in 1..10 : Digits[i] = c

DigitVal(c) == (CHOOSE i \in 1..10 : Digits[i] = c) - 1

\* the letters of the period grammar, as the 'i' flag of the pattern folds them
ToUpper(c) ==
    CASE c = "p" -> "P"
      [] c = "t" -> "T"
      [] c = "y" -> "Y"
      [] c = "m" -> "M"
      [] c = "d" -> "D"
      [] c = "h" -> "H"
      [] c = "s" -> "S"
      [] OTHER -> c

\* parseInt of a run of decimal digits (the empty run reads as 0 here; the
\* pattern never captures one)
RECURSIVE ParseInt(_)
ParseInt(ds) ==
    IF ds = <<>> THEN 0
    ELSE 10 * ParseInt(SubSeq(ds, 1, Len(ds) - 1)) + DigitVal(ds[Len(ds)])

\* the values JavaScript calls null and undefined, and a thrown TypeError
Null == [type |-> "null"]

Undefined == [type |-> "undefined"]

Returned(v) == [kind |-> "return", value |-> v]

Thrown(e) == [kind |-> "throw", error |-> e]

(***************************************************************************)
(* PERIODICITY_PATTERN (index.js:23):                                      *)
(*   /^P((\d+)Y)?((\d+)M)?((\d+)D)?(T((\d+)H)?((\d+)M)?((\d+)S)?)?$/i      *)
(* Each optional group is "(\d+)L": the longest run of digits at pos,      *)
(* followed by the letter L.  When the letter does not follow, the group   *)
(* matches empty and its capture is undefined.                             *)
(***************************************************************************)
RECURSIVE DigitRun(_, _)
DigitRun(text, pos) ==
    IF pos <= Len(text) /\ IsDigit(text[pos]) THEN 1 + DigitRun(text, pos + 1) ELSE 0

\* one optional group "((\d+)L)?" tried at pos, run being the digits found there
OptGroupOfRun(text, pos, letter, run) ==
    IF run >= 1 /\ pos + run <= Len(text) /\ ToUpper(text[pos + run]) = letter
    THEN [next |-> pos + run + 1,
          cap  |-> [type |-> "string", chars |-> SubSeq(text, pos, pos + run - 1)]]
    ELSE [next |-> pos, cap |-> Undefined]

OptGroup(text, pos, letter) == OptGroupOfRun(text, pos, letter, DigitRun(text, pos))

\* The pattern is matched group by group, left to right; caps collects the
\* captures the code reads (xmatch[2], [4], [6], [9], [11], [13]).
NoTimeMatch == [g9 |-> Undefined, g11 |-> Undefined, g13 |-> Undefined]

\* "$" after the S group
MatchEnd(text, caps, s) ==
    IF s.next = Len(text) + 1 THEN caps @@ [g13 |-> s.cap] ELSE Null

MatchSeconds(text, caps, mi) ==
    MatchEnd(text, caps @@ [g11 |-> mi.cap], OptGroup(text, mi.next, "S"))

MatchMinutes(text, caps, h) ==
    MatchSeconds(text, caps @@ [g9 |-> h.cap], OptGroup(text, h.next, "M"))

\* the optional group "(T...)?" and "$"
MatchTime(text, caps, pos) ==
    IF pos = Len(text) + 1 THEN caps @@ NoTimeMatch
    ELSE IF ToUpper(text[pos]) = "T"
         THEN MatchMinutes(text, caps, OptGroup(text, pos + 1, "H"))
         ELSE Null

MatchAfterDays(text, caps, d) == MatchTime(text, caps @@ [g6 |-> d.cap], d.next)

MatchDays(text, caps, mo) ==
    MatchAfterDays(text, caps @@ [g4 |-> mo.cap], OptGroup(text, mo.next, "D"))

MatchMonths(text, y) ==
    MatchDays(text, [type |-> "match", g2 |-> y.cap], OptGroup(text, y.next, "M"))

\* String.prototype.match with PERIODICITY_PATTERN: Null, or the captures
PERIODICITY_PATTERN_match(text) ==
    IF Len(text) = 0 \/ ToUpper(text[1]) # "P" THEN Null
    ELSE MatchMonths(text, OptGroup(text, 2, "Y"))

(***************************************************************************)
(* getPeriodTimedelta (index.js:109-150).  A period that is not a string   *)
(* (the undefined third part of "a/b") has no match method: TypeError.     *)
(***************************************************************************)
\* delta[dim] after the forEach body of lines 136-141 for one capture
DeltaComponent(cap) ==
    IF cap.type = "string" THEN ParseInt(cap.chars) ELSE 0

\* a slip: ">= 0" where the code has "> 0", which lets P0Y through
NonZeroTotalPeriodOrZero(delta) ==
    \/ delta.years >= 0
    \/ delta.months > 0
    \/ delta.days > 0
    \/ delta.hours > 0
    \/ delta.minutes > 0
    \/ delta.seconds > 0

\* a slip: the zero-length test forgotten
NonZeroTotalPeriodUntested(delta) == TRUE

\* nonZeroTotalPeriod after the forEach of lines 135-143
NonZeroTotalPeriod(delta) ==
    \/ delta.years > 0
    \/ delta.months > 0
    \/ delta.days > 0
    \/ delta.hours > 0
    \/ delta.minutes > 0
    \/ delta.seconds > 0

\* lines 145-149
ReturnDelta(delta) ==
    IF ~NonZeroTotalPeriod(delta) THEN Returned(Null) ELSE Returned(delta)

\* lines 111-143
DeltaOfMatch(xmatch) ==
    IF xmatch = Null THEN Returned(Null)
    ELSE ReturnDelta([type    |-> "delta",
                      years   |-> DeltaComponent(xmatch.g2),
                      months  |-> DeltaComponent(xmatch.g4),
                      days    |-> DeltaComponent(xmatch.g6),
                      hours   |-> DeltaComponent(xmatch.g9),
                      minutes |-> DeltaComponent(xmatch.g11),
                      seconds |-> DeltaComponent(xmatch.g13)])

getPeriodTimedelta(period) ==
    IF period.type # "string" THEN Thrown("TypeError")
    ELSE DeltaOfMatch(PERIODICITY_PATTERN_match(period.chars))

Str(chars) == [type |-> "string", chars |-> chars]

(***************************************************************************)
(* The proleptic Gregorian calendar in UTC, as Date and moment compute it. *)
(***************************************************************************)
SecondsPerDay == 24 * 60 * 60

IsLeapYear(y) == (y % 4 = 0 /\ y % 100 # 0) \/ y % 400 = 0

\* month in 1..12
DaysInMonth(y, m) ==
    IF m = 2 THEN (IF IsLeapYear(y) THEN 29 ELSE 28)
    ELSE IF m \in {4, 6, 9, 11} THEN 30 ELSE 31

\* days since 1970-01-01 of the civil date y-m-d
DaysFromCivil(y, m, d) ==
    LET yy  == IF m <= 2 THEN y - 1 ELSE y
        era == yy \div 400
        yoe == yy - era * 400
        mp  == IF m > 2 THEN m - 3 ELSE m + 9
        doy == (153 * mp + 2) \div 5 + d - 1
        doe == yoe * 365 + yoe \div 4 - yoe \div 100 + doy
    IN  era * 146097 + doe - 719468

\* the civil date of a day number
CivilFromDays(z) ==
    LET zz  == z + 719468
        era == zz \div 146097
        doe == zz - era * 146097
        yoe == (doe - doe \div 1460 + doe \div 36524 - doe \div 146096) \div 365
        doy == doe - (365 * yoe + yoe \div 4 - yoe \div 100)
        mp  == (5 * doy + 2) \div 153
        d   == doy - (153 * mp + 2) \div 5 + 1
        m   == IF mp < 10 THEN mp + 3 ELSE mp - 9
        y   == yoe + era * 400 + (IF m <= 2 THEN 1 ELSE 0)
    IN  [year |-> y, month |-> m, day |-> d]

(***************************************************************************)
(* Time values: a number of seconds, or NaN.  Date objects have an         *)
(* identity (id), which Array.prototype.includes compares.                 *)
(***************************************************************************)
NaN == [nan |-> TRUE, t |-> 0]

TimeValue(t) == [nan |-> FALSE, t |-> t]

NewDate(id, tv) == [id |-> id, nan |-> tv.nan, t |-> tv.t]

\* a.getTime() <= b.getTime() and a.getTime() > b.getTime(): false with a NaN
GetTimeLe(a, b) == ~a.nan /\ ~b.nan /\ a.t <= b.t

GetTimeGt(a, b) == ~a.nan /\ ~b.nan /\ a.t > b.t

(***************************************************************************)
(* Date.parse on the date-time form YYYY-MM-DDTHH:MM:SSZ.  Every other     *)
(* text the model hands it ("garbage", the empty text) is no date: NaN.    *)
(***************************************************************************)
IsoShape == <<"d", "d", "d", "d", "-", "d", "d", "-", "d", "d", "T",
              "d", "d", ":", "d", "d", ":", "d", "d", "Z">>

HasIsoShape(text) ==
    /\ Len(text) = Len(IsoShape)
    /\ \A i \in 1..Len(IsoShape) :
         IF IsoShape[i] = "d" THEN IsDigit(text[i]) ELSE text[i] = IsoShape[i]

DateParse(text) ==
    IF ~HasIsoShape(text) THEN NaN
    ELSE
      LET y  == ParseInt(SubSeq(text, 1, 4))
          mo == ParseInt(SubSeq(text, 6, 7))
          d  == ParseInt(SubSeq(text, 9, 10))
          h  == ParseInt(SubSeq(text, 12, 13))
          mi == ParseInt(SubSeq(text, 15, 16))
          s  == ParseInt(SubSeq(text, 18, 19))
      IN  IF /\ mo \in 1..12
             /\ d >= 1
             /\ d <= DaysInMonth(y, mo)
             /\ h <= 23
             /\ mi <= 59
             /\ s <= 59
          THEN TimeValue(DaysFromCivil(y, mo, d) * SecondsPerDay + h * 3600 + mi * 60 + s)
          ELSE NaN

CurrentToken == <<"c", "u", "r", "r", "e", "n", "t">>

(***************************************************************************)
(* toDate (index.js:36-42).  clock is the wall-clock reading of new Date();*)
(* id names the object created.                                            *)
(***************************************************************************)
toDate(isoTime, clock, id) ==
    IF isoTime = CurrentToken
    THEN NewDate(id, TimeValue(clock))
    ELSE NewDate(id, DateParse(isoTime))

(***************************************************************************)
(* subtractTimeDelta (index.js:77-84): moment(time).subtract(value, key)   *)
(* for the keys years, months, days, hours, minutes, seconds in this       *)
(* order, then toDate().  moment subtracts years and months on the         *)
(* calendar (the day of the month clamped to the target month's length)    *)
(* and days on the local date; the local zone is taken to be UTC.          *)
(***************************************************************************)
\* the day number of year-month-day, the day clamped to the month's length
ClampedDay(year, month, day) ==
    DaysFromCivil(year, month,
                  IF day <= DaysInMonth(year, month) THEN day ELSE DaysInMonth(year, month))

\* the civil date c moved back n months; months counts the months since year 0
MonthsBack(c, n) ==
    ClampedDay((c.year * 12 + (c.month - 1) - n) \div 12,
               ((c.year * 12 + (c.month - 1) - n) % 12) + 1,
               c.day)

SubtractMonths(t, n) ==
    IF n = 0 THEN t
    ELSE MonthsBack(CivilFromDays(t \div SecondsPerDay), n) * SecondsPerDay
         + (t % SecondsPerDay)

MomentSubtract(t, delta) ==
    LET afterYears  == SubtractMonths(t, 12 * delta.years)
        afterMonths == SubtractMonths(afterYears, delta.months)
    IN  afterMonths - delta.days * SecondsPerDay - delta.hours * 3600
                    - delta.minutes * 60 - delta.seconds

subtractTimeDelta(time, delta, id) ==
    IF time.nan THEN NewDate(id, NaN)
    ELSE NewDate(id, TimeValue(MomentSubtract(time.t, delta)))

(***************************************************************************)
(* String.prototype.split and includes for a one-character separator.      *)
(***************************************************************************)
Includes(text, ch) == \E i \in 1..Len(text) : text[i] = ch

FirstIndex(text, ch) == CHOOSE i \in 1..Len(text) : text[i] = ch /\ \A j \in 1..(i - 1) : text[j] # ch

RECURSIVE Split(_, _)
Split(text, ch) ==
    IF ~Includes(text, ch) THEN <<text>>
    ELSE LET i == FirstIndex(text, ch)
         IN  <<SubSeq(text, 1, i - 1)>> \o Split(SubSeq(text, i + 1, Len(text)), ch)

\* Array.prototype.includes on objects: the very same object
ArrayIncludes(values, obj) == \E i \in 1..Len(values) : values[i].id = obj.id


(***************************************************************************)
(* enumerateAvailableTimes (index.js:178-232).                             *)
(***************************************************************************)
\* a slip: the first written instant taken for the start
IntervalStartAsWritten(part1, part2) == part1

\* lines 190-191: the earlier and the later of the two written instants
IntervalStart(part1, part2) == IF GetTimeLe(part1, part2) THEN part1 ELSE part2

IntervalEnd(part1, part2) == IF GetTimeLe(part1, part2) THEN part2 ELSE part1

\* lines 193-195 and 221-223: push unless this very object is in the array
PushIfNotIncluded(values, date) ==
    IF ~ArrayIncludes(values, date) THEN Append(values, date) ELSE values

\* a slip: the limit forgotten in the loop condition
WalkCondUnlimited(values, timestep, start, limit) ==
    GetTimeGt(timestep, start)

\* the loop conditions of lines 207-214
WalkCond(values, timestep, start, limit) ==
    IF limit = -1
    THEN GetTimeGt(timestep, start)
    ELSE Len(values) < limit /\ GetTimeGt(timestep, start)

\* the while loops of lines 209-217; nid is the next unused object id
RECURSIVE Walk(_, _, _, _, _, _)
RECURSIVE WalkBody(_, _, _, _, _, _)
WalkBody(values, next, start, delta, limit, nid) ==
    Walk(Append(values, next), next, start, delta, limit, nid + 1)

Walk(values, timestep, start, delta, limit, nid) ==
    IF WalkCond(values, timestep, start, limit)
    THEN WalkBody(values, subtractTimeDelta(timestep, delta, nid), start, delta, limit, nid)
    ELSE [values |-> values, nid |-> nid]

\* lines 221-223 on the outcome of the loop
PushStart(walked, start) ==
    [values |-> PushIfNotIncluded(walked.values, start), nid |-> walked.nid]

\* a slip: an unparsable period ends the entry before start is pushed
StepsAndStartSkippingStart(values, start, end, delta, limit, nid) ==
    IF delta = Null
    THEN [values |-> values, nid |-> nid]
    ELSE PushStart(Walk(values, end, start, delta, limit, nid), start)

\* lines 202-223: the steps of a parsed period, then start
StepsAndStart(values, start, end, delta, limit, nid) ==
    IF delta = Null
    THEN PushStart([values |-> values, nid |-> nid], start)
    ELSE PushStart(Walk(values, end, start, delta, limit, nid), start)

\* the accumulator [values, nid, thrown] after an entry; an exception ends
\* the whole call
AfterEntry(acc, after) == [acc EXCEPT !.values = after.values, !.nid = after.nid]

\* lines 197-223, parsed being the outcome of getPeriodTimedelta(period)
WithDelta(acc, start, end, parsed, limit) ==
    IF parsed.kind = "throw"
    THEN [acc EXCEPT !.nid = acc.nid + 2, !.thrown = TRUE]
    ELSE AfterEntry(acc, StepsAndStart(PushIfNotIncluded(acc.values, end), start, end,
                                       parsed.value, limit, acc.nid + 2))

\* lines 190-197
WithParts(acc, part1, part2, period, limit) ==
    WithDelta(acc, IntervalStart(part1, part2), IntervalEnd(part1, part2),
              getPeriodTimedelta(period), limit)

\* lines 187-192; a definition with a single "/" has no parts[2]
WithSplit(acc, parts, limit, clock) ==
    WithParts(acc, toDate(parts[1], clock, acc.nid), toDate(parts[2], clock, acc.nid + 1),
              IF Len(parts) >= 3 THEN Str(parts[3]) ELSE Undefined, limit)

\* the forEach body, lines 182-224
ProcessDefinition(acc, definition, limit, clock) ==
    IF acc.thrown THEN acc
    ELSE IF ~Includes(definition, "/")
    THEN [acc EXCEPT !.values = Append(acc.values, toDate(definition, clock, acc.nid)),
                     !.nid = acc.nid + 1]
    ELSE WithSplit(acc, Split(definition, "/"), limit, clock)

RECURSIVE ForEachDefinition(_, _, _, _)
ForEachDefinition(acc, definitions, limit, clock) ==
    IF definitions = <<>> THEN acc
    ELSE ForEachDefinition(ProcessDefinition(acc, Head(definitions), limit, clock),
                           Tail(definitions), limit, clock)

\* lines 179-225: the array accumulated before the optional sort
Accumulate(text, limit, clock) ==
    ForEachDefinition([values |-> <<>>, nid |-> 1, thrown |-> FALSE],
                      Split(text, ","), limit, clock)

(***************************************************************************)
(* values.sort((a,b) => a.getTime() - b.getTime()) (line 228).  A NaN      *)
(* difference counts as 0.  With a consistent comparator the sort is the   *)
(* stable ascending one; with an inconsistent one (a NaN next to two       *)
(* different times) the language leaves the order to the implementation,   *)
(* and every order is a possible outcome.                                  *)
(***************************************************************************)
Compare(a, b) == IF a.nan \/ b.nan THEN 0 ELSE a.t - b.t

ComparatorConsistent(values) ==
    \/ \A i \in 1..Len(values) : ~values[i].nan
    \/ \A i, j \in 1..Len(values) : Compare(values[i], values[j]) = 0

RECURSIVE InsertStable(_, _)
InsertStable(sortedValues, x) ==
    IF sortedValues = <<>> THEN <<x>>
    ELSE IF Compare(sortedValues[Len(sortedValues)], x) <= 0
         THEN Append(sortedValues, x)
         ELSE Append(InsertStable(SubSeq(sortedValues, 1, Len(sortedValues) - 1), x),
                     sortedValues[Len(sortedValues)])

RECURSIVE StableSort(_)
StableSort(values) ==
    IF values = <<>> THEN <<>>
    ELSE InsertStable(StableSort(SubSeq(values, 1, Len(values) - 1)), values[Len(values)])

RemoveAt(values, i) == SubSeq(values, 1, i - 1) \o SubSeq(values, i + 1, Len(values))

RECURSIVE Orders(_)
Orders(values) ==
    IF values = <<>> THEN {<<>>}
    ELSE UNION {{<<values[i]>> \o rest : rest \in Orders(RemoveAt(values, i))}
                : i \in 1..Len(values)}

SortOutcomes(values) ==
    IF ComparatorConsistent(values) THEN {StableSort(values)} ELSE Orders(values)

\* lines 227-231
ReturnValues(acc, sorted) ==
    IF acc.thrown THEN {Thrown("TypeError")}
    ELSE IF sorted THEN {Returned(v) : v \in SortOutcomes(acc.values)}
    ELSE {Returned(acc.values)}

\* the possible outcomes of one call
enumerateAvailableTimes(text, limit, sorted, clock) ==
    ReturnValues(Accumulate(text, limit, clock), sorted)

(***************************************************************************)
(* Capability objects, as WMSCapabilities.read() hands them over: objects  *)
(* whose fields are present or undefined, and arrays.                      *)
(***************************************************************************)
Array(items) == [type |-> "array", items |-> items]

IsArray(v) == v.type = "array"

\* what "if (v)" and "v &&" test: undefined, null and the empty string are falsy
Truthy(v) ==
    /\ v.type # "undefined"
    /\ v.type # "null"
    /\ v.type = "string" => v.chars # <<>>

(***************************************************************************)
(* getAllLayers (index.js:269-290).                                        *)
(***************************************************************************)
\* a slip: the sublayers taken last to first
RECURSIVE ForEachLayerReversed(_)
RECURSIVE getAllLayers(_)
RECURSIVE ForEachLayer(_)
ForEachLayerReversed(layers) ==
    IF layers = <<>> THEN <<>>
    ELSE ForEachLayerReversed(Tail(layers)) \o getAllLayers(Head(layers))

\* lines 276-280: the forEach over an array of sublayers
ForEachLayer(layers) ==
    IF layers = <<>> THEN <<>>
    ELSE getAllLayers(Head(layers)) \o ForEachLayer(Tail(layers))

getAllLayers(capability) ==
    IF Truthy(capability.Capability)
    THEN getAllLayers(capability.Capability)
    ELSE IF Truthy(capability.Layer)
    THEN (IF IsArray(capability.Layer)
          THEN ForEachLayer(capability.Layer.items)
          ELSE getAllLayers(capability.Layer))
    ELSE <<capability>>

(***************************************************************************)
(* getBoundingBoxLatLon (index.js:299-310).                                *)
(***************************************************************************)
DefaultBoundingBox == <<-180, -90, 180, 90>>

\* a slip: the crs tag not compared
BoxMatchesAnyCrs(bbox) == Truthy(bbox.crs) /\ Truthy(bbox.extent)

\* the test of line 304
BoxMatches(bbox) ==
    /\ Truthy(bbox.crs)
    /\ bbox.crs = Str(<<"E", "P", "S", "G", ":", "4", "3", "2", "6">>)
    /\ Truthy(bbox.extent)

\* the for loop of lines 301-307 from index i on: the extent returned, or
\* Undefined when the loop runs out
RECURSIVE ScanBoundingBoxes(_, _)
ScanBoundingBoxes(boxes, i) ==
    IF i > Len(boxes) THEN Undefined
    ELSE IF BoxMatches(boxes[i]) THEN boxes[i].extent
    ELSE ScanBoundingBoxes(boxes, i + 1)

\* lines 308-309
ExtentOrDefault(found) ==
    IF found = Undefined THEN [type |-> "extent", box |-> DefaultBoundingBox] ELSE found

getBoundingBoxLatLon(capaLayer) ==
    IF Truthy(capaLayer.BoundingBox) /\ IsArray(capaLayer.BoundingBox)
    THEN ExtentOrDefault(ScanBoundingBoxes(capaLayer.BoundingBox.items, 1))
    ELSE [type |-> "extent", box |-> DefaultBoundingBox]

(***************************************************************************)
(* getGetMapEndpointUrl (index.js:243-258).                                *)
(***************************************************************************)
Field(obj, name) == IF name \in DOMAIN obj THEN obj[name] ELSE Undefined

RECURSIVE getGetMapEndpointUrl(_)
getGetMapEndpointUrl(capability) ==
    IF Truthy(capability.Capability)
    THEN getGetMapEndpointUrl(capability.Capability)
    ELSE IF /\ Truthy(Field(capability, "Request"))
            /\ Truthy(Field(capability.Request, "GetMap"))
            /\ Truthy(Field(capability.Request.GetMap, "DCPType"))
            /\ IsArray(capability.Request.GetMap.DCPType)
            /\ Len(capability.Request.GetMap.DCPType.items) > 0
            /\ Truthy(Field(capability.Request.GetMap.DCPType.items[1], "HTTP"))
            /\ Truthy(Field(capability.Request.GetMap.DCPType.items[1].HTTP, "Get"))
            /\ Truthy(Field(capability.Request.GetMap.DCPType.items[1].HTTP.Get,
                            "OnlineResource"))
    THEN capability.Request.GetMap.DCPType.items[1].HTTP.Get.OnlineResource
    ELSE Str(<<>>)

(***************************************************************************)
(* The handler of getAvailableLayers that turns the parsed document into   *)
(* layer records (index.js:322-359).  A layer under construction carries   *)
(* thrown, set when enumerateAvailableTimes raised: the exception leaves   *)
(* the handler and the promise is rejected.                                *)
(***************************************************************************)
LAYER_BLACKLIST ==
    {"background", "foreground", "grid", "boundaries", "oceans", "bluemarble",
     "Natural_Earth_Map"}

\* the default of the limit parameter of enumerateAvailableTimes (line 178)
DefaultLimit == 240

\* lines 334-340
NewLayer(cl, getMapUrl) ==
    [name              |-> cl.Name,
     title             |-> cl.Title,
     getMapEndpointUrl |-> getMapUrl,
     time              |-> Null,
     boundingBox       |-> getBoundingBoxLatLon(cl),
     times             |-> Undefined,
     thrown            |-> FALSE]

\* lines 349-351 with an outcome of enumerateAvailableTimes(dim.values)
WithTimes(layer, outcome) ==
    IF outcome.kind = "throw" THEN [layer EXCEPT !.thrown = TRUE]
    ELSE [layer EXCEPT !.times = Array(outcome.value)]

\* lines 345-348
SetDefaultTime(layer, dim, clock) ==
    IF Truthy(dim.default)
    THEN [layer EXCEPT !.time = toDate(dim.default.chars, clock, 1)]
    ELSE layer

\* lines 349-351
SetTimes(layer, dim, clock) ==
    IF dim.units = "ISO8601"
    THEN {WithTimes(layer, o) :
            o \in enumerateAvailableTimes(dim.values.chars, DefaultLimit, TRUE, clock)}
    ELSE {layer}

\* a slip: a dimension named time is skipped once one was applied
ApplyFirstTimeDimension(layer, dim, clock) ==
    IF layer.thrown THEN {layer}
    ELSE IF dim.name = "time" /\ layer.time = Null /\ layer.times = Undefined
    THEN SetTimes(SetDefaultTime(layer, dim, clock), dim, clock)
    ELSE {layer}

\* the forEach body of lines 342-353: the layers it may leave
ApplyDimension(layer, dim, clock) ==
    IF layer.thrown THEN {layer}
    ELSE IF dim.name = "time"
    THEN SetTimes(SetDefaultTime(layer, dim, clock), dim, clock)
    ELSE {layer}

RECURSIVE ForEachDimension(_, _, _)
ForEachDimension(layers, dims, clock) ==
    IF dims = <<>> THEN layers
    ELSE ForEachDimension(UNION {ApplyDimension(l, Head(dims), clock) : l \in layers},
                          Tail(dims), clock)

\* lines 334-354 for one leaf
BuildLayer(cl, getMapUrl, clock) ==
    IF Truthy(cl.Dimension)
    THEN ForEachDimension({NewLayer(cl, getMapUrl)}, cl.Dimension.items, clock)
    ELSE {NewLayer(cl, getMapUrl)}

\* lines 332-357: the arrays availableLayers may become
RECURSIVE ForEachCapaLayer(_, _, _, _)
ForEachCapaLayer(available, capalayers, getMapUrl, clock) ==
    IF capalayers = <<>> THEN available
    ELSE IF Head(capalayers).Name \in LAYER_BLACKLIST
    THEN ForEachCapaLayer(available, Tail(capalayers), getMapUrl, clock)
    ELSE ForEachCapaLayer(
             {Append(a, l) : a \in available,
                             l \in BuildLayer(Head(capalayers), getMapUrl, clock)},
             Tail(capalayers), getMapUrl, clock)

AnyThrown(layers) == \E i \in 1..Len(layers) : layers[i].thrown

HandlerOutcome(layers) ==
    IF AnyThrown(layers) THEN Thrown("TypeError") ELSE Returned(layers)

\* lines 327-358 on the parsed document
CapabilitiesHandler(result, clock) ==
    {HandlerOutcome(layers) :
        layers \in ForEachCapaLayer({<<>>}, getAllLayers(result.Capability),
                                    getGetMapEndpointUrl(result.Capability), clock)}

(***************************************************************************)
(* The calls explored.                                                     *)
(***************************************************************************)
PeriodAlphabet == {"P", "p", "T", "Y", "M", "D", "H", "S", "0", "2"}

RECURSIVE TextsUpTo(_, _)
TextsUpTo(alphabet, n) ==
    IF n = 0 THEN {<<>>}
    ELSE LET shorter == TextsUpTo(alphabet, n - 1)
         IN  shorter \cup {Append(t, c) : t \in {s \in shorter : Len(s) = n - 1}, c \in alphabet}

PeriodCalls ==
    {[period |-> Str(t)] : t \in TextsUpTo(PeriodAlphabet, MaxPeriodLen)}

NoResult == [kind |-> "none"]

InitPeriod ==
    /\ op = "getPeriodTimedelta"
    /\ args \in PeriodCalls
    /\ now = 0
    /\ pc = "call"
    /\ ret = NoResult

CallGetPeriodTimedelta ==
    /\ pc = "call"
    /\ op = "getPeriodTimedelta"
    /\ ret' = getPeriodTimedelta(args.period)
    /\ pc' = "done"
    /\ UNCHANGED <<op, args, now>>

NextPeriod == CallGetPeriodTimedelta

(***************************************************************************)
(* Time definitions.  A definition is described by its entries and         *)
(* written out as the text the code receives.                              *)
(***************************************************************************)
Pad2(n) == <<Digits[(n \div 10) + 1], Digits[(n % 10) + 1]>>

Pad4(n) == Pad2(n \div 100) \o Pad2(n % 100)

\* Date.prototype.toISOString without the milliseconds
IsoText(t) ==
    LET c   == CivilFromDays(t \div SecondsPerDay)
        tod == t % SecondsPerDay
    IN  Pad4(c.year) \o <<"-">> \o Pad2(c.month) \o <<"-">> \o Pad2(c.day) \o <<"T">>
        \o Pad2(tod \div 3600) \o <<":">> \o Pad2((tod % 3600) \div 60) \o <<":">>
        \o Pad2(tod % 60) \o <<"Z">>

FirstDay == DaysFromCivil(2020, 3, 29) * SecondsPerDay

LeapDay == DaysFromCivil(2020, 2, 29) * SecondsPerDay

WrittenTimes == {FirstDay + d * SecondsPerDay : d \in 0..MaxSpanDays} \cup {LeapDay}

Garbage == <<"g", "a", "r", "b", "a", "g", "e">>

Iso(t) == [kind |-> "iso", t |-> t, text |-> IsoText(t)]

Current == [kind |-> "current", t |-> 0, text |-> CurrentToken]

Malformed == [kind |-> "malformed", t |-> 0, text |-> Garbage]

ValidInstants == {Iso(t) : t \in WrittenTimes}

Instants == ValidInstants \cup {Current, Malformed}

Period(chars) == [present |-> TRUE, chars |-> chars]

NoPeriod == [present |-> FALSE, chars |-> <<>>]

Periods ==
    {Period(<<"P", "1", "D">>), Period(<<"P", "T", "3", "6", "H">>),
     Period(<<"P", "1", "M">>), Period(<<"P", "0", "D">>), Period(<<"P", "1", "X">>),
     NoPeriod}

Single(i) == [kind |-> "instant", a |-> i, b |-> i, period |-> NoPeriod]

Interval(a, b, p) == [kind |-> "interval", a |-> a, b |-> b, period |-> p]

EntryText(e) ==
    IF e.kind = "instant" THEN e.a.text
    ELSE e.a.text \o <<"/">> \o e.b.text
         \o (IF e.period.present THEN <<"/">> \o e.period.chars ELSE <<>>)

RECURSIVE DefinitionText(_)
DefinitionText(entries) ==
    IF Len(entries) = 1 THEN EntryText(entries[1])
    ELSE EntryText(entries[1]) \o <<",">> \o DefinitionText(Tail(entries))

Entries ==
    {Single(i) : i \in Instants}
    \cup {Interval(a, b, p) : a \in Instants, b \in Instants, p \in Periods}

HasMalformed(e) == e.a = Malformed \/ e.b = Malformed

\* the entries that accompany another entry in a two-entry definition
Companions ==
    {Single(Iso(FirstDay + SecondsPerDay)),
     Single(Current),
     Interval(Iso(FirstDay), Iso(FirstDay + MaxSpanDays * SecondsPerDay), Period(<<"P", "1", "D">>)),
     Interval(Iso(FirstDay + SecondsPerDay), Iso(FirstDay), Period(<<"P", "T", "3", "6", "H">>)),
     Interval(Iso(FirstDay + SecondsPerDay), Iso(FirstDay), Period(<<"P", "0", "D">>))}

\* a malformed instant comes alone or next to a single instant, which keeps
\* the orders an inconsistent sort may produce few
CompanionsOf(e) == IF HasMalformed(e) THEN {c \in Companions : c.kind = "instant"} ELSE Companions

Definitions ==
    {<<e>> : e \in Entries}
    \cup UNION {UNION {{<<e, c>>, <<c, e>>} : c \in CompanionsOf(e)} : e \in Entries}

Limits == -1..MaxLimit

Clocks == {FirstDay + SecondsPerDay + 12 * 3600}

TimesCalls ==
    {[entries |-> d, text |-> DefinitionText(d), limit |-> l, sorted |-> s] :
        d \in Definitions, l \in Limits, s \in BOOLEAN}

ToDateCalls == {[instant |-> i, text |-> i.text] : i \in Instants}

InitTimes ==
    /\ \/ op = "enumerateAvailableTimes" /\ args \in TimesCalls
       \/ op = "toDate" /\ args \in ToDateCalls
    /\ now \in Clocks
    /\ pc = "call"
    /\ ret = NoResult

CallToDate ==
    /\ pc = "call"
    /\ op = "toDate"
    /\ ret' = Returned(toDate(args.text, now, 1))
    /\ pc' = "done"
    /\ UNCHANGED <<op, args, now>>

CallEnumerateAvailableTimes ==
    /\ pc = "call"
    /\ op = "enumerateAvailableTimes"
    /\ ret' \in enumerateAvailableTimes(args.text, args.limit, args.sorted, now)
    /\ pc' = "done"
    /\ UNCHANGED <<op, args, now>>

NextTimes == CallToDate \/ CallEnumerateAvailableTimes

SpecTimes == InitTimes /\ [][NextTimes]_vars

(***************************************************************************)
(* Capability trees.  A tree is drawn as a shape: nodes 1..n numbered in   *)
(* document order, each but the root hanging under parent[i] by the field  *)
(* via[i]; isArray[i] tells whether node i holds its sublayers in an array *)
(* (possibly empty) or, having one, as a single object.                    *)
(***************************************************************************)
\* the nodes from i up to the root
RECURSIVE PathToRoot(_, _)
PathToRoot(parent, i) == IF i = 0 THEN {} ELSE {i} \cup PathToRoot(parent, parent[i])

Kids(shape, i, field) ==
    {c \in 2..shape.n : shape.parent[c] = i /\ shape.via[c] = field}

WellFormed(shape) ==
    \A i \in 1..shape.n :
        /\ Cardinality(Kids(shape, i, "Capability")) <= 1
        /\ ~shape.isArray[i] => Cardinality(Kids(shape, i, "Layer")) <= 1

\* document order: a node hangs under the node before it or one of its ancestors
RECURSIVE Parents(_)
Parents(n) ==
    IF n = 1 THEN {<<0>>}
    ELSE {Append(p, q) : p \in Parents(n - 1), q \in 1..(n - 1)}

InDocumentOrder(parent) ==
    \A i \in 2..Len(parent) : parent[i] \in PathToRoot(parent, i - 1)

ShapesOf(n) ==
    {shape \in [n : {n},
                parent : {p \in Parents(n) : InDocumentOrder(p)},
                via : [1..n -> {"Capability", "Layer"}],
                isArray : [1..n -> BOOLEAN]] :
        shape.via[1] = "Layer" /\ WellFormed(shape)}

Shapes == UNION {ShapesOf(n) : n \in 1..MaxNodes}

\* the set s as the ascending sequence
RECURSIVE Ascending(_)
Ascending(s) ==
    IF s = {} THEN <<>>
    ELSE LET least == CHOOSE x \in s : \A y \in s : x <= y
         IN  <<least>> \o Ascending(s \ {least})

\* the object the parser hands over for node i of the shape
RECURSIVE Node(_, _)
NodeOfKids(shape, i, capKids, layerKids) ==
    [type       |-> "object",
     Name       |-> ToString(i),
     Capability |-> IF capKids = <<>> THEN Undefined ELSE Node(shape, capKids[1]),
     Layer      |-> IF shape.isArray[i]
                    THEN Array([k \in 1..Len(layerKids) |-> Node(shape, layerKids[k])])
                    ELSE IF layerKids = <<>> THEN Undefined
                    ELSE Node(shape, layerKids[1])]

Node(shape, i) ==
    NodeOfKids(shape, i, Ascending(Kids(shape, i, "Capability")),
               Ascending(Kids(shape, i, "Layer")))

(***************************************************************************)
(* Layers with bounding boxes and dimensions.                              *)
(***************************************************************************)
Extent(box) == [type |-> "extent", box |-> box]

Epsg4326 == Str(<<"E", "P", "S", "G", ":", "4", "3", "2", "6">>)

Crs84 == Str(<<"C", "R", "S", ":", "8", "4">>)

BoxEntries ==
    [crs : {Epsg4326, Crs84, Undefined},
     extent : {Extent(<<47, 5, 55, 15>>), Extent(<<-90, -180, 90, 180>>), Undefined}]

RECURSIVE SeqsUpTo(_, _)
SeqsUpTo(S, n) ==
    IF n = 0 THEN {<<>>}
    ELSE LET shorter == SeqsUpTo(S, n - 1)
         IN  shorter \cup {Append(q, x) : q \in {r \in shorter : Len(r) = n - 1}, x \in S}

\* the BoundingBox field: absent, an array, or a lone entry that is no array
BoundingBoxFields ==
    {Undefined}
    \cup {Array(b) : b \in SeqsUpTo(BoxEntries, MaxBoxes)}
    \cup {[type |-> "object", crs |-> Epsg4326, extent |-> Extent(<<47, 5, 55, 15>>)]}

BoundingBoxCalls == {[capaLayer |-> [BoundingBox |-> b]] : b \in BoundingBoxFields}

DimensionValues ==
    {Str(IsoText(FirstDay + SecondsPerDay)),
     Str(IsoText(FirstDay) \o <<"/">>
         \o IsoText(FirstDay + MaxSpanDays * SecondsPerDay)
         \o <<"/", "P", "1", "D">>)}

\* dimensions named time, and an elevation that has all a time dimension has
DimensionEntries ==
    [name    : {"time"},
     default : {Undefined, Str(IsoText(FirstDay)), Str(CurrentToken)},
     units   : {"ISO8601", "m"},
     values  : DimensionValues]
    \cup
    [name    : {"elevation"},
     default : {Str(IsoText(FirstDay + SecondsPerDay))},
     units   : {"ISO8601", "m"},
     values  : {Str(IsoText(FirstDay))}]

DimensionFields ==
    {Undefined} \cup {Array(d) : d \in SeqsUpTo(DimensionEntries, MaxDims)}

Leaf(name, boxes, dims) ==
    [type |-> "object", Name |-> name, Title |-> name, Capability |-> Undefined,
     Layer |-> Undefined, BoundingBox |-> boxes, Dimension |-> dims]

OnlineResource ==
    Str(<<"h", "t", "t", "p", "s", ":", "/", "/", "w", "m", "s">>)

GetMapRequest ==
    [type |-> "object",
     GetMap |-> [type |-> "object",
                 DCPType |-> Array(<<[type |-> "object",
                                      HTTP |-> [type |-> "object",
                                                Get |-> [type |-> "object",
                                                         OnlineResource |-> OnlineResource]]]>>)]]

\* a document whose layers are a basemap and the layer, or the layer alone
Documents(leaf) ==
    {[Capability |-> [type |-> "object", Capability |-> Undefined,
                      Request |-> GetMapRequest,
                      Layer |-> Array(<<Leaf("background", Undefined, Undefined), leaf>>)]],
     [Capability |-> [type |-> "object", Capability |-> Undefined,
                      Request |-> Undefined,
                      Layer |-> leaf]]}

BoxesOfLayer ==
    {Undefined, Array(<<[crs |-> Epsg4326, extent |-> Extent(<<47, 5, 55, 15>>)]>>)}

HandlerCalls ==
    UNION {{[result |-> doc, leaf |-> Leaf("Pollen", b, d)] : doc \in Documents(Leaf("Pollen", b, d))}
           : b \in BoxesOfLayer, d \in DimensionFields}

InitLayers ==
    /\ \/ op = "getAllLayers" /\ args \in {[shape |-> sh, capability |-> Node(sh, 1)] : sh \in Shapes}
       \/ op = "getBoundingBoxLatLon" /\ args \in BoundingBoxCalls
       \/ op = "getAvailableLayers" /\ args \in HandlerCalls
    /\ now \in Clocks
    /\ pc = "call"
    /\ ret = NoResult

CallGetAllLayers ==
    /\ pc = "call"
    /\ op = "getAllLayers"
    /\ ret' = Returned(getAllLayers(args.capability))
    /\ pc' = "done"
    /\ UNCHANGED <<op, args, now>>

CallGetBoundingBoxLatLon ==
    /\ pc = "call"
    /\ op = "getBoundingBoxLatLon"
    /\ ret' = Returned(getBoundingBoxLatLon(args.capaLayer))
    /\ pc' = "done"
    /\ UNCHANGED <<op, args, now>>

\* the second then-handler of getAvailableLayers on a parsed document
HandleCapabilities ==
    /\ pc = "call"
    /\ op = "getAvailableLayers"
    /\ ret' \in CapabilitiesHandler(args.result, now)
    /\ pc' = "done"
    /\ UNCHANGED <<op, args, now>>

NextLayers == CallGetAllLayers \/ CallGetBoundingBoxLatLon \/ HandleCapabilities

SpecLayers == InitLayers /\ [][NextLayers]_vars

Init == InitPeriod \/ InitTimes \/ InitLayers

Next == NextPeriod \/ NextTimes \/ NextLayers

Spec == Init /\ [][Next]_vars

SpecPeriod == InitPeriod /\ [][NextPeriod]_vars

(***************************************************************************)
(* The period grammar, stated on its own: a text belongs to                *)
(* P[nY][nM][nD][T[nH][nM][nS]] when it can be cut into "P", three         *)
(* date segments and, after a "T", three time segments, each segment       *)
(* empty or a number followed by its designator.                           *)
(***************************************************************************)
AllDigits(text, a, b) == \A i \in a..b : IsDigit(text[i])

\* text[a .. b-1] is the segment of designator letter: empty, or n then letter
IsSegment(text, a, b, letter) ==
    \/ a = b
    \/ /\ b >= a + 2
       /\ AllDigits(text, a, b - 2)
       /\ ToUpper(text[b - 1]) = letter

WrittenNumber(text, a, b) == IF a = b THEN 0 ELSE ParseInt(SubSeq(text, a, b - 2))

TimeReadings(text, from) ==
    LET end == Len(text) + 1
    IN  IF from = end THEN {<<0, 0, 0>>}
        ELSE IF ToUpper(text[from]) # "T" THEN {}
        ELSE UNION {
               IF ~IsSegment(text, from + 1, i, "H") THEN {}
               ELSE UNION {
                      IF IsSegment(text, i, j, "M") /\ IsSegment(text, j, end, "S")
                      THEN {<<WrittenNumber(text, from + 1, i), WrittenNumber(text, i, j),
                              WrittenNumber(text, j, end)>>}
                      ELSE {} : j \in i..end} : i \in (from + 1)..end}

GrammarReadings(text) ==
    LET end == Len(text) + 1
    IN  IF Len(text) = 0 \/ text[1] \notin {"P", "p"} THEN {}
        ELSE UNION {
               IF ~IsSegment(text, 2, i, "Y") THEN {}
               ELSE UNION {
                      IF ~IsSegment(text, i, j, "M") THEN {}
                      ELSE UNION {
                             IF ~IsSegment(text, j, k, "D") THEN {}
                             ELSE {[type    |-> "delta",
                                    years   |-> WrittenNumber(text, 2, i),
                                    months  |-> WrittenNumber(text, i, j),
                                    days    |-> WrittenNumber(text, j, k),
                                    hours   |-> t[1],
                                    minutes |-> t[2],
                                    seconds |-> t[3]] : t \in TimeReadings(text, k)}
                             : k \in j..end} : j \in i..end} : i \in 2..end}

AllZero(d) ==
    d.years = 0 /\ d.months = 0 /\ d.days = 0 /\ d.hours = 0 /\ d.minutes = 0 /\ d.seconds = 0

\* C6: getPeriodTimedelta never raises on a text; it returns null exactly
\* when the text is outside the period grammar or every written component is
\* zero, and otherwise the record of the written numbers, omitted ones 0.
C6_PeriodParse ==
    (pc = "done" /\ op = "getPeriodTimedelta") =>
        /\ ret.kind = "return"
        /\ LET readings == {d \in GrammarReadings(args.period.chars) : ~AllZero(d)}
           IN  IF readings = {} THEN ret.value = Null ELSE readings = {ret.value}

\* a text with a date and a time component was read, and a zero period refused
C6_Witness ==
    /\ pc = "done"
    /\ op = "getPeriodTimedelta"
    /\ args.period.chars = <<"p", "2", "M", "T">>
    /\ ret = Returned([type |-> "delta", years |-> 0, months |-> 2, days |-> 0,
                       hours |-> 0, minutes |-> 0, seconds |-> 0])

(***************************************************************************)
(* Properties of enumerateAvailableTimes and toDate.                       *)
(***************************************************************************)
Done(name) == pc = "done" /\ op = name

\* the time values of a returned array, object identities dropped
TimesOf(values) == [i \in 1..Len(values) |-> [nan |-> values[i].nan, t |-> values[i].t]]

Observed(outcome) ==
    IF outcome.kind = "return"
    THEN [kind |-> "return", times |-> TimesOf(outcome.value)]
    ELSE [kind |-> "throw", times |-> <<>>]

\* a period text of the grammar with a component above zero
IsValidPeriod(p) ==
    p.present /\ \E d \in GrammarReadings(p.chars) : ~AllZero(d)

\* a period text that is invalid: outside the grammar, or all zero
IsInvalidPeriod(p) == p.present /\ ~IsValidPeriod(p)

ReadingOf(p) == CHOOSE d \in GrammarReadings(p.chars) : TRUE

\* the length of a period without calendar components
FixedSeconds(d) == d.days * SecondsPerDay + d.hours * 3600 + d.minutes * 60 + d.seconds

\* the instant a written instant stands for
InstantTime(i) == IF i.kind = "current" THEN now ELSE i.t

SingleInterval ==
    /\ Len(args.entries) = 1
    /\ args.entries[1].kind = "interval"

WrittenLow(e) == IF InstantTime(e.a) <= InstantTime(e.b) THEN InstantTime(e.a) ELSE InstantTime(e.b)

WrittenHigh(e) == IF InstantTime(e.a) <= InstantTime(e.b) THEN InstantTime(e.b) ELSE InstantTime(e.a)

\* one interval of two different date-times whose range is k whole periods of
\* fixed length, enumerated without limit, sorted
ExactMultipleCase ==
    /\ Done("enumerateAvailableTimes")
    /\ SingleInterval
    /\ args.entries[1].a.kind = "iso"
    /\ args.entries[1].b.kind = "iso"
    /\ args.entries[1].a # args.entries[1].b
    /\ IsValidPeriod(args.entries[1].period)
    /\ ReadingOf(args.entries[1].period).years = 0
    /\ ReadingOf(args.entries[1].period).months = 0
    /\ (WrittenHigh(args.entries[1]) - WrittenLow(args.entries[1]))
           % FixedSeconds(ReadingOf(args.entries[1].period)) = 0
    /\ args.limit = -1
    /\ args.sorted

ExactMultipleExpected ==
    LET e    == args.entries[1]
        step == FixedSeconds(ReadingOf(e.period))
        k    == (WrittenHigh(e) - WrittenLow(e)) \div step
    IN  [i \in 1..(k + 1) |-> [nan |-> FALSE, t |-> WrittenLow(e) + (i - 1) * step]]

\* C1: an interval whose range is k whole periods yields exactly the k+1
\* instants start, start+period, ..., end, ascending, each once.
C1_ExactMultipleOnce ==
    ExactMultipleCase =>
        /\ ret.kind = "return"
        /\ TimesOf(ret.value) = ExactMultipleExpected

\* C2: one interval with a valid period and a limit N >= 0 yields at most
\* N+2 instants.
C2_LengthWithinLimitPlusTwo ==
    (/\ Done("enumerateAvailableTimes")
     /\ SingleInterval
     /\ IsValidPeriod(args.entries[1].period)
     /\ args.limit >= 0) =>
        /\ ret.kind = "return"
        /\ Len(ret.value) <= args.limit + 2

\* the limit cut a walk of 31 daily steps short
C2_Witness ==
    /\ Done("enumerateAvailableTimes")
    /\ args.entries = <<Interval(Iso(LeapDay), Iso(FirstDay), Period(<<"P", "1", "D">>))>>
    /\ args.limit = 2
    /\ ret.kind = "return"
    /\ Len(ret.value) = 3

\* C3: with a limit >= 0 the returned array holds at most limit instants.
C3_AtMostLimit ==
    (/\ Done("enumerateAvailableTimes")
     /\ args.limit >= 0
     /\ ret.kind = "return") =>
        Len(ret.value) <= args.limit

HasMalformedInstant(entries) == \E i \in 1..Len(entries) : HasMalformed(entries[i])

\* C4: a text that is neither 'current' nor a date-time makes toDate, and
\* enumerateAvailableTimes on a definition holding it, fail; no result holds
\* an invalid instant.
C4_MalformedInstantRaises ==
    /\ (Done("toDate") /\ args.instant = Malformed) => ret.kind = "throw"
    /\ (Done("enumerateAvailableTimes") /\ HasMalformedInstant(args.entries)) =>
           ret.kind = "throw"
    /\ (Done("enumerateAvailableTimes") /\ ret.kind = "return") =>
           \A i \in 1..Len(ret.value) : ~ret.value[i].nan

\* the same interval with its two instants written the other way round
Swapped(e) == Interval(e.b, e.a, e.period)

\* C8: 'a/b/p' and 'b/a/p' of valid instants produce the same set of instants.
C8_SwapSameInstants ==
    (/\ Done("enumerateAvailableTimes")
     /\ SingleInterval
     /\ ~HasMalformed(args.entries[1])) =>
        \A other \in enumerateAvailableTimes(EntryText(Swapped(args.entries[1])),
                                             args.limit, args.sorted, now) :
            /\ other.kind = ret.kind
            /\ ret.kind = "return" =>
                   {ret.value[i].t : i \in 1..Len(ret.value)}
                       = {other.value[i].t : i \in 1..Len(other.value)}

\* an interval written end first was walked
C8_Witness ==
    /\ Done("enumerateAvailableTimes")
    /\ SingleInterval
    /\ args.entries[1].a = Iso(FirstDay + MaxSpanDays * SecondsPerDay)
    /\ args.entries[1].b = Iso(FirstDay)
    /\ IsValidPeriod(args.entries[1].period)
    /\ ret.kind = "return"
    /\ Len(ret.value) >= 3

\* the written instant that the code takes for the end, and for the start
EndInstant(e) ==
    IF e.a # Malformed /\ e.b # Malformed /\ InstantTime(e.a) <= InstantTime(e.b)
    THEN e.b ELSE e.a

StartInstant(e) ==
    IF e.a # Malformed /\ e.b # Malformed /\ InstantTime(e.a) <= InstantTime(e.b)
    THEN e.a ELSE e.b

\* the entries with every interval of invalid period replaced by its two
\* endpoints, end then start, written as single instants
RECURSIVE EndpointsOnly(_)
EndpointsOnly(entries) ==
    IF entries = <<>> THEN <<>>
    ELSE (IF Head(entries).kind = "interval" /\ IsInvalidPeriod(Head(entries).period)
          THEN <<Single(EndInstant(Head(entries))), Single(StartInstant(Head(entries)))>>
          ELSE <<Head(entries)>>)
         \o EndpointsOnly(Tail(entries))

HasInvalidPeriod(entries) ==
    \E i \in 1..Len(entries) :
        entries[i].kind = "interval" /\ IsInvalidPeriod(entries[i].period)

EndpointTimes(e) ==
    {[nan |-> i = Malformed, t |-> IF i = Malformed THEN 0 ELSE InstantTime(i)] : i \in {e.a, e.b}}

\* C10: an interval with an invalid period raises nothing and contributes its
\* two endpoints, end then start, and nothing else; the definition yields what
\* it yields with that entry written as the two instants.
C10_InvalidPeriodEndpointsOnly ==
    (Done("enumerateAvailableTimes") /\ HasInvalidPeriod(args.entries)) =>
        /\ Observed(ret) \in
             {Observed(o) : o \in enumerateAvailableTimes(
                                      DefinitionText(EndpointsOnly(args.entries)),
                                      args.limit, args.sorted, now)}
        /\ SingleInterval =>
             /\ ret.kind = "return"
             /\ Len(ret.value) = 2
             /\ {TimesOf(ret.value)[i] : i \in 1..2} = EndpointTimes(args.entries[1])
             /\ ~args.sorted => TimesOf(ret.value) =
                    <<[nan |-> EndInstant(args.entries[1]) = Malformed,
                       t |-> IF EndInstant(args.entries[1]) = Malformed THEN 0
                             ELSE InstantTime(EndInstant(args.entries[1]))],
                      [nan |-> StartInstant(args.entries[1]) = Malformed,
                       t |-> IF StartInstant(args.entries[1]) = Malformed THEN 0
                             ELSE InstantTime(StartInstant(args.entries[1]))]>>

\* a zero-length period next to an interval that was walked up to the limit
C10_Witness ==
    /\ Done("enumerateAvailableTimes")
    /\ args.entries =
         <<Interval(Iso(FirstDay + SecondsPerDay), Iso(FirstDay), Period(<<"P", "0", "D">>)),
           Interval(Iso(LeapDay), Iso(FirstDay), Period(<<"P", "1", "D">>))>>
    /\ args.limit = MaxLimit
    /\ ~args.sorted
    /\ ret.kind = "return"
    /\ Len(ret.value) = MaxLimit + 1

(***************************************************************************)
(* Properties of getAllLayers, stated on the shape the tree was drawn      *)
(* from.  The tree is the one of the three node cases: a node with a       *)
(* nested Capability is a wrapper and passes to it, whatever else it has.  *)
(***************************************************************************)
ChildrenOf(shape, i) ==
    IF Kids(shape, i, "Capability") # {} THEN Kids(shape, i, "Capability")
    ELSE Kids(shape, i, "Layer")

InTree(shape, i) ==
    \A j \in PathToRoot(shape.parent, i) \ {1} : j \in ChildrenOf(shape, shape.parent[j])

\* neither a nested Capability nor a Layer field
IsLeafNode(shape, i) ==
    /\ Kids(shape, i, "Capability") = {}
    /\ Kids(shape, i, "Layer") = {}
    /\ ~shape.isArray[i]

LeavesInDocumentOrder(shape) ==
    Ascending({i \in 1..shape.n : InTree(shape, i) /\ IsLeafNode(shape, i)})

\* C5: getAllLayers returns exactly the leaves of the tree, in document
\* order, each once; a leaf yields the one-element sequence of itself.
C5_LeavesInDocumentOrder ==
    Done("getAllLayers") =>
        /\ ret.kind = "return"
        /\ Len(ret.value) = Len(LeavesInDocumentOrder(args.shape))
        /\ \A k \in 1..Len(ret.value) :
               ret.value[k] = Node(args.shape, LeavesInDocumentOrder(args.shape)[k])
        /\ IsLeafNode(args.shape, 1) => ret.value = <<args.capability>>

\* a wrapper over a branch of two leaves was flattened
C5_Witness ==
    /\ Done("getAllLayers")
    /\ args.shape.n = 4
    /\ args.shape.via[2] = "Capability"
    /\ args.shape.parent = <<0, 1, 2, 2>>
    /\ args.shape.via[3] = "Layer"
    /\ args.shape.via[4] = "Layer"
    /\ Len(ret.value) = 2
    /\ ret.value[1].Name = "3"
    /\ ret.value[2].Name = "4"

(***************************************************************************)
(* Properties of getBoundingBoxLatLon.                                     *)
(***************************************************************************)
BoxItems == IF IsArray(args.capaLayer.BoundingBox) THEN args.capaLayer.BoundingBox.items ELSE <<>>

FirstWhere(P(_), items) ==
    IF \E i \in 1..Len(items) : P(items[i])
    THEN CHOOSE i \in 1..Len(items) : P(items[i]) /\ \A j \in 1..(i - 1) : ~P(items[j])
    ELSE 0

HasCrs4326(bbox) == bbox.crs = Epsg4326

HasCrs4326AndExtent(bbox) == bbox.crs = Epsg4326 /\ bbox.extent # Undefined

\* C9 as claimed: the extent of the first entry whose crs is EPSG:4326, or
\* the default box when there is no list or no such entry; never an error.
C9_FirstCrsMatch ==
    Done("getBoundingBoxLatLon") =>
        /\ ret.kind = "return"
        /\ ret.value = IF FirstWhere(HasCrs4326, BoxItems) = 0
                       THEN Extent(DefaultBoundingBox)
                       ELSE BoxItems[FirstWhere(HasCrs4326, BoxItems)].extent

\* C9 as amended: the extent of the first entry whose crs is EPSG:4326 and
\* which carries an extent, or the default box when there is no list or no
\* such entry; never an error.
C9_FirstCrsMatchWithExtent ==
    Done("getBoundingBoxLatLon") =>
        /\ ret.kind = "return"
        /\ ret.value = IF FirstWhere(HasCrs4326AndExtent, BoxItems) = 0
                       THEN Extent(DefaultBoundingBox)
                       ELSE BoxItems[FirstWhere(HasCrs4326AndExtent, BoxItems)].extent

\* an EPSG:4326 entry without extent was passed over for a later one
C9_Witness ==
    /\ Done("getBoundingBoxLatLon")
    /\ args.capaLayer.BoundingBox =
         Array(<<[crs |-> Epsg4326, extent |-> Undefined],
                 [crs |-> Epsg4326, extent |-> Extent(<<47, 5, 55, 15>>)]>>)
    /\ ret = Returned(Extent(<<47, 5, 55, 15>>))

(***************************************************************************)
(* Properties of the layer records.                                        *)
(***************************************************************************)
LeafDimensions == IF IsArray(args.leaf.Dimension) THEN args.leaf.Dimension.items ELSE <<>>

LastWhere(P(_), items) ==
    IF \E i \in 1..Len(items) : P(items[i])
    THEN CHOOSE i \in 1..Len(items) : P(items[i]) /\ \A j \in (i + 1)..Len(items) : ~P(items[j])
    ELSE 0

NamedTime(dim) == dim.name = "time"

TimeWithDefault(dim) == dim.name = "time" /\ dim.default # Undefined

TimeWithIsoUnits(dim) == dim.name = "time" /\ dim.units = "ISO8601"

\* the fields time and times that dimension i alone would give a record
TimeFrom(dims, i) ==
    IF i = 0 \/ dims[i].default = Undefined THEN Null
    ELSE toDate(dims[i].default.chars, now, 1)

TimesFrom(dims, i) ==
    IF i = 0 \/ dims[i].units # "ISO8601" THEN {Undefined}
    ELSE {Array(o.value) :
            o \in enumerateAvailableTimes(dims[i].values.chars, DefaultLimit, TRUE, now)}

\* the record built for the layer of the document
PollenRecord == ret.value[1]

\* C7 as claimed: only the first dimension named 'time' determines time and
\* times.
C7_FirstTimeDimensionOnly ==
    Done("getAvailableLayers") =>
        /\ ret.kind = "return"
        /\ Len(ret.value) = 1
        /\ PollenRecord.time = TimeFrom(LeafDimensions, FirstWhere(NamedTime, LeafDimensions))
        /\ PollenRecord.times \in TimesFrom(LeafDimensions, FirstWhere(NamedTime, LeafDimensions))

\* C7 as amended: time comes from the last dimension named 'time' that
\* declares a default, times from the last dimension named 'time' whose units
\* are ISO8601; dimensions of other names change neither.
C7_LastTimeDimensionWins ==
    Done("getAvailableLayers") =>
        /\ ret.kind = "return"
        /\ Len(ret.value) = 1
        /\ PollenRecord.name = "Pollen"
        /\ PollenRecord.time =
               TimeFrom(LeafDimensions, LastWhere(TimeWithDefault, LeafDimensions))
        /\ PollenRecord.times \in
               TimesFrom(LeafDimensions, LastWhere(TimeWithIsoUnits, LeafDimensions))

\* two dimensions named time that differ in default and values were applied
C7_Witness ==
    /\ Done("getAvailableLayers")
    /\ Len(LeafDimensions) = 2
    /\ NamedTime(LeafDimensions[1])
    /\ NamedTime(LeafDimensions[2])
    /\ LeafDimensions[1].default = Str(IsoText(FirstDay))
    /\ LeafDimensions[2].default = Str(CurrentToken)
    /\ LeafDimensions[1].units = "ISO8601"
    /\ LeafDimensions[2].units = "ISO8601"
    /\ LeafDimensions[1].values # LeafDimensions[2].values
    /\ ret.kind = "return"
    /\ PollenRecord.time.t = now
    /\ PollenRecord.times # Undefined

(***************************************************************************)
(* Properties of the backward walk.                                        *)
(***************************************************************************)
\* one interval of two valid instants with a valid period
ValidInterval ==
    /\ SingleInterval
    /\ ~HasMalformed(args.entries[1])
    /\ IsValidPeriod(args.entries[1].period)

\* C11: for one interval with a valid period every returned instant lies in
\* the closed range from start to end, whether or not the range is a whole
\* number of periods.
C11_WithinStartAndEnd ==
    (Done("enumerateAvailableTimes") /\ ValidInterval) =>
        /\ ret.kind = "return"
        /\ \A i \in 1..Len(ret.value) :
               /\ ~ret.value[i].nan
               /\ WrittenLow(args.entries[1]) <= ret.value[i].t
               /\ ret.value[i].t <= WrittenHigh(args.entries[1])

(***************************************************************************)
(* enumerateAvailableTimes on one interval, one loop iteration at a time.  *)
(* While pc is "loop" or "exit", ret holds the locals of the call.  The    *)
(* call runs to completion once started, nothing else being scheduled in   *)
(* between.                                                                *)
(***************************************************************************)
WalkInstants == ValidInstants \cup {Current}

WalkCalls ==
    {[entries |-> <<Interval(a, b, p)>>, text |-> EntryText(Interval(a, b, p)),
      limit |-> l, sorted |-> s] :
        a \in WalkInstants, b \in WalkInstants, p \in Periods, l \in Limits, s \in BOOLEAN}

InitWalk ==
    /\ op = "enumerateAvailableTimes"
    /\ args \in WalkCalls
    /\ now \in Clocks
    /\ pc = "call"
    /\ ret = NoResult

\* the locals when the loop is reached (line 206): values holds end
Locals(start, end, delta) ==
    [kind |-> "locals", values |-> PushIfNotIncluded(<<>>, end), timestep |-> end,
     start |-> start, delta |-> delta, nid |-> 3]

\* lines 193-202, parsed being the outcome of getPeriodTimedelta(period)
EnterWithDelta(start, end, parsed) ==
    IF parsed.kind = "throw" THEN parsed ELSE Locals(start, end, parsed.value)

\* lines 190-197
EnterWithParts(part1, part2, period) ==
    EnterWithDelta(IntervalStart(part1, part2), IntervalEnd(part1, part2),
                   getPeriodTimedelta(period))

\* lines 187-192
EnterWithSplit(parts, clock) ==
    EnterWithParts(toDate(parts[1], clock, 1), toDate(parts[2], clock, 2),
                   IF Len(parts) >= 3 THEN Str(parts[3]) ELSE Undefined)

\* lines 179-202: up to the first test of the loop condition
EnterInterval ==
    /\ pc = "call"
    /\ op = "enumerateAvailableTimes"
    /\ \E entered \in {EnterWithSplit(Split(Head(Split(args.text, ",")), "/"), now)} :
           /\ ret' = entered
           /\ pc' = IF entered.kind = "throw" THEN "done" ELSE "loop"
    /\ UNCHANGED <<op, args, now>>

\* lines 210-211 and 215-216
AfterStep(locals, next) ==
    [locals EXCEPT !.values = Append(locals.values, next), !.timestep = next,
                   !.nid = locals.nid + 1]

\* one iteration of the while loops of lines 209-217
LoopStep ==
    /\ pc = "loop"
    /\ ret.delta # Null
    /\ WalkCond(ret.values, ret.timestep, ret.start, args.limit)
    /\ Len(ret.values) < MaxWalkLen
    /\ ret' = AfterStep(ret, subtractTimeDelta(ret.timestep, ret.delta, ret.nid))
    /\ UNCHANGED <<op, args, now, pc>>

\* the loop condition fails, or there is no delta (line 202): the loop is left
LoopExit ==
    /\ pc = "loop"
    /\ \/ ret.delta = Null
       \/ ~WalkCond(ret.values, ret.timestep, ret.start, args.limit)
    /\ pc' = "exit"
    /\ UNCHANGED <<op, args, now, ret>>

\* lines 221-231: start is pushed, the array sorted on request and returned
PushStartAndReturn ==
    /\ pc = "exit"
    /\ ret' \in ReturnValues([values |-> PushIfNotIncluded(ret.values, ret.start),
                              nid |-> ret.nid, thrown |-> FALSE], args.sorted)
    /\ pc' = "done"
    /\ UNCHANGED <<op, args, now>>

NextWalk == EnterInterval \/ LoopStep \/ LoopExit \/ PushStartAndReturn

\* once the loop is reached, its next test or iteration is taken
SpecWalk == InitWalk /\ [][NextWalk]_vars /\ WF_vars(LoopStep) /\ WF_vars(LoopExit)

\* C12: for an interval of two valid instants the backward walk, once
\* reached, is left, for every limit, -1 included: a parsed period has a
\* component above zero, each subtraction moves the current instant back, and
\* the loop ends once the instant is no longer after start.
C12_WalkTerminates == (pc = "loop") ~> (pc = "exit")

\* an unlimited walk of 29 daily steps has ended, with the result of the call
C12_Witness ==
    /\ pc = "done"
    /\ args.entries = <<Interval(Iso(LeapDay), Iso(FirstDay), Period(<<"P", "1", "D">>))>>
    /\ args.limit = -1
    /\ ret.kind = "return"
    /\ Len(ret.value) = 31
    /\ ret \in enumerateAvailableTimes(args.text, args.limit, args.sorted, now)

====
